---- MODULE Spec2Model ----
(***************************************************************************)
(* Momento background jobs: the import job and the regeneration job of     *)
(* momento_api/processor (importer.py, regenerator.py, media_processor.py) *)
(* and the routes of momento_api/routes/imports.py that trigger them.      *)
(*                                                                         *)
(* Spec       the two job kinds, their worker threads, the triggers, the   *)
(*            cancel request and the status snapshots.                     *)
(* SpecMerge  one regeneration run record by record: the merge of fresh    *)
(*            metadata into the stored rows, in either mode.               *)
(* SpecTags   calls of _merge_keyword_tags on the tags and media_tags      *)
(*            tables.                                                      *)
(* SpecFair   Spec with every thread that can take a step taking one.      *)
(* SpecCollect     _collect_import_files on a directory tree.              *)
(* SpecGeo         the reverse lookups of the two job kinds side by side.  *)
(* SpecVideoThumb  generate_video_thumbnail step by step.                  *)
(* SpecWebdav      _collect_webdav_files on a remote tree; SpecWebdavFair  *)
(*                 is the traversal that keeps running.                    *)
(***************************************************************************)
EXTENDS Integers, Sequences, FiniteSets, TLC

\* Rows of the media table a regeneration run reads.
MaxRecords == 1
\* Files an import run can enumerate.
MaxFiles == 1

VARIABLES
    regenJob,          \* regenerator._current_job (NoJob models None)
    cancel_requested,  \* regenerator._cancel_requested
    importJob,         \* importer._current_job (NoJob models None)
    lists,             \* the heap of Python list objects (the jobs' errors lists)
    regenThreads,      \* threads running run_regeneration / clean_and_regenerate
    importThreads,     \* threads running run_local_import / run_webdav_import
    handler,           \* position of the request handler on the event loop
    response,          \* what the request handled by the last step returned
    snapshot,          \* the job object a status request got back
    snapshotAt,        \* history: the live job's values when the snapshot was taken
    media,             \* rows of the media table that imports inserted
    stored,            \* files that imports wrote under originals/ and thumbnails/,
                       \* and source files that imports unlinked
    scope,             \* the thread slots a specification uses; never changes
    rows,              \* the rows a detailed regeneration run fetched at its start
    tags,              \* the tags table: the name of each row, row ids from 1
    media_tags,        \* the media_tags table, in insertion order
    merged,            \* history: the (media id, token) pairs merged so far
    lastRow,           \* history: the row and the fresh metadata of the last iteration
    importRoot,        \* an import root, the platform and what _collect_import_files returned
    connection,        \* the regeneration thread's database connection in a detailed run
    videoThumb,        \* one call of generate_video_thumbnail and the files it works on
    remote,            \* one call of _collect_webdav_files and the remote tree it walks
    cancelMidRun,      \* history: a cancel was accepted with processed < total
    touchedAfterSeen   \* history: a run touched a record after it saw the flag

jobVars == <<regenJob, cancel_requested, importJob, lists>>
threadVars == <<regenThreads, importThreads>>
histVars == <<cancelMidRun, touchedAfterSeen>>
snapVars == <<snapshot, snapshotAt>>
dbVars == <<rows, tags, media_tags, merged, lastRow, importRoot, connection, videoThumb, remote>>
diskVars == <<media, stored, scope, dbVars>>
vars == <<regenJob, cancel_requested, importJob, lists, regenThreads, importThreads,
          handler, response, snapshot, snapshotAt, media, stored, scope,
          rows, tags, media_tags, merged, lastRow, importRoot, connection, videoThumb, remote,
          cancelMidRun, touchedAfterSeen>>

-----------------------------------------------------------------------------
(* Python objects *)

None == "None"
Nil == "nil"
\* Addresses of list objects. Three lists are live at most (one per job and one
\* of the last snapshot); the fourth is the one being allocated.
Refs == {"L1", "L2", "L3", "L4"}

\* `_current_job = None`
NoJob == [status |-> "none", errors |-> Nil]

RegenerationJob(st, started, errs) ==
    [status |-> st, total_media |-> 0, processed_media |-> 0, updated_metadata |-> 0,
     generated_thumbnails |-> 0, updated_tags |-> 0,
     started_at |-> started, completed_at |-> None, errors |-> errs]

ImportJob(st, started, errs) ==
    [status |-> st, total_files |-> 0, processed_files |-> 0, successful_imports |-> 0,
     failed_imports |-> 0, started_at |-> started, completed_at |-> None, errors |-> errs]

\* list(): the address of a list object that nothing refers to.
NewList(live) == CHOOSE r \in Refs : r \notin live

LiveRefs(rj, ij, sn) == {rj.errors, ij.errors, sn.errors}

\* Reference counting: a list nothing refers to any more is gone.
Collect(h, live) == [r \in Refs |-> IF r \in live THEN h[r] ELSE <<>>]

\* The values of a job object, its errors list read through the heap.
Deep(job, h) ==
    IF job.errors = Nil THEN job ELSE [job EXCEPT !.errors = h[job.errors]]

-----------------------------------------------------------------------------
(* regenerator.py: the job supervisor of the regeneration kind *)

is_regeneration_running(job) == job.status = "running"

\* A start that replaces the job whatever its status.
start_job_always(job, fresh) == RegenerationJob("running", "set", fresh)

\* _start_job: the job `_current_job` refers to afterwards, given a fresh list.
start_job(job, fresh) ==
    IF job.status = "running" THEN job ELSE RegenerationJob("running", "set", fresh)

finalize_job_success(job) ==
    IF job.status = "none" THEN job
    ELSE [job EXCEPT !.status = "completed", !.completed_at = "set"]

\* A cancellation that sets the status alone.
finalize_job_cancelled_untimed(job) ==
    IF job.status = "none" THEN job ELSE [job EXCEPT !.status = "cancelled"]

\* _finalize_job_cancelled
finalize_job_cancelled(job) ==
    IF job.status = "none" THEN job
    ELSE [job EXCEPT !.status = "cancelled", !.completed_at = "set"]

\* _finalize_job_failure changes the job's fields and appends to its list.
finalize_job_failure_fields(job) ==
    IF job.status = "none" THEN job
    ELSE [job EXCEPT !.status = "failed", !.completed_at = "set"]

Append1(h, job, msg) ==
    IF job.status = "none" \/ msg = None THEN h
    ELSE [h EXCEPT ![job.errors] = Append(@, msg)]

update_job_totals(job, n) ==
    IF job.status = "none" THEN job ELSE [job EXCEPT !.total_media = n]

update_job_progress(job, metadata_updated, thumbnail_generated, tags_updated) ==
    IF job.status = "none" THEN job
    ELSE [job EXCEPT !.processed_media = @ + 1,
                     !.updated_metadata = IF metadata_updated THEN @ + 1 ELSE @,
                     !.generated_thumbnails = IF thumbnail_generated THEN @ + 1 ELSE @,
                     !.updated_tags = @ + tags_updated]

\* A status that hands out the live job's own list.
get_regeneration_status_shared(job, fresh) ==
    IF job.status = "none" THEN RegenerationJob("idle", None, fresh) ELSE job

\* get_regeneration_status: the object returned, given the address of the list
\* that list(...) or the dataclass default allocates.
get_regeneration_status(job, fresh) ==
    IF job.status = "none" THEN RegenerationJob("idle", None, fresh)
    ELSE [job EXCEPT !.errors = fresh]

\* What the returned object's list holds when get_regeneration_status returns.
status_errors(job, h) == IF job.status = "none" THEN <<>> ELSE h[job.errors]

-----------------------------------------------------------------------------
(* importer.py: the job supervisor of the import kind *)

\* The test against the wrong status.
is_import_running_completed(job) == job.status = "completed"

is_import_running(job) == job.status = "running"

start_import_job(job, fresh) ==
    IF job.status = "running" THEN job ELSE ImportJob("running", "set", fresh)

import_finalize_job_success(job) ==
    IF job.status = "none" THEN job
    ELSE [job EXCEPT !.status = "completed", !.completed_at = "set"]

import_finalize_job_failure_fields(job) ==
    IF job.status = "none" THEN job
    ELSE [job EXCEPT !.status = "failed", !.completed_at = "set"]

import_update_job_totals(job, n) ==
    IF job.status = "none" THEN job ELSE [job EXCEPT !.total_files = n]

import_update_job_progress(job, success) ==
    IF job.status = "none" THEN job
    ELSE IF success
         THEN [job EXCEPT !.processed_files = @ + 1, !.successful_imports = @ + 1]
         ELSE [job EXCEPT !.processed_files = @ + 1, !.failed_imports = @ + 1]

get_import_status(job, fresh) ==
    IF job.status = "none" THEN ImportJob("idle", None, fresh)
    ELSE [job EXCEPT !.errors = fresh]

-----------------------------------------------------------------------------
(* media_processor.py: ingestion of one file *)

\* The INSERT statement of _insert_media_record: the columns it names, the
\* `?` placeholders of its VALUES list and the parameters bound to them.
InsertColumns == 24
InsertPlaceholders == 23
InsertParams == 24

\* sqlite3 refuses a statement whose VALUES list does not match its column
\* list, and a parameter tuple that does not match the placeholders.
StatementAccepted(columns, placeholders, params) ==
    columns = placeholders /\ placeholders = params

\* database.insert_returning_id: the table afterwards and the row id, or the
\* exception raised (row ids start at 1; id 0 stands for no id).
insert_returning_id(table, row) ==
    IF StatementAccepted(InsertColumns, InsertPlaceholders, InsertParams)
    THEN [raised |-> None, table |-> Append(table, row), id |-> Len(table) + 1]
    ELSE [raised |-> "OperationalError", table |-> table, id |-> 0]

\* What an enumerated file can be: a JPEG with EXIF date, GPS and the
\* keywords "beach,sunset", a supported file without embedded metadata, and a
\* file named like an extension (".jpg"), which the globs match and which has
\* no suffix.
FileKinds == {"photo", "plain", "dotfile"}

get_media_type(kind) == IF kind = "dotfile" THEN None ELSE "image"

\* _validate_media_file
validate_media_file(exists, kind) == IF ~exists THEN None ELSE get_media_type(kind)

\* What a media file holds, as far as the extractors read it: whether it opens
\* (its width is read), its embedded date, coordinates and keywords, and
\* whether stat() on it succeeds.
Contents ==
    [width : {None, "w2"}, exif_date : BOOLEAN, gps : BOOLEAN,
     keywords : {None, "beach,sunset"}, stat_ok : BOOLEAN]

ContentsOf(kind) ==
    IF kind = "photo"
    THEN [width |-> "w2", exif_date |-> TRUE, gps |-> TRUE, keywords |-> "beach,sunset",
          stat_ok |-> TRUE]
    ELSE [width |-> "w2", exif_date |-> FALSE, gps |-> FALSE, keywords |-> None,
          stat_ok |-> TRUE]

\* metadata._fallback_to_mtime
fallback_to_mtime(stat_ok) == IF stat_ok THEN "mtime" ELSE None

\* metadata.extract_image_metadata: a file that does not open yields the mtime
\* date alone; the location fields are never set by extraction.
extract_image_metadata(file) ==
    LET opened == file.width # None
    IN [width |-> file.width,
        date_taken |-> IF opened /\ file.exif_date THEN "exif"
                       ELSE fallback_to_mtime(file.stat_ok),
        gps_latitude |-> IF opened /\ file.gps THEN "g2" ELSE None,
        gps_longitude |-> IF opened /\ file.gps THEN "g2" ELSE None,
        keywords |-> IF opened THEN file.keywords ELSE None,
        location_state |-> None, location_country |-> None]

\* What a reverse lookup can answer.
NoPlace == [state |-> None, country |-> None]
Places == {NoPlace, [state |-> "s2", country |-> "c2"]}

\* generate_complete_metadata: date_taken falls back to the file's mtime, then
\* to now; a lookup is made when a geocoding configuration is passed and
\* enabled, the coordinates are known and a location field is unknown.
\* looked_up tells whether _reverse_geocode was called.
generate_complete_metadata(file, geo_enabled, place) ==
    LET metadata == extract_image_metadata(file)
        date_taken == IF metadata.date_taken # None THEN metadata.date_taken
                      ELSE IF file.stat_ok THEN "mtime" ELSE "now"
        lookup == /\ geo_enabled
                  /\ metadata.gps_latitude # None /\ metadata.gps_longitude # None
                  /\ (metadata.location_state = None \/ metadata.location_country = None)
    IN [width |-> metadata.width,
        date_taken |-> date_taken,
        gps_latitude |-> metadata.gps_latitude, gps_longitude |-> metadata.gps_longitude,
        keywords |-> metadata.keywords,
        location_state |-> IF lookup /\ place.state # None THEN place.state
                           ELSE metadata.location_state,
        location_country |-> IF lookup /\ place.country # None THEN place.country
                             ELSE metadata.location_country,
        looked_up |-> lookup]

\* _insert_media_record: the parameter tuple of the INSERT (the two location
\* columns are bound to None).
media_record(metadata, thumbnail_relative) ==
    [file_path |-> "stored", thumbnail_path |-> thumbnail_relative,
     width |-> metadata.width, date_taken |-> metadata.date_taken,
     gps_latitude |-> metadata.gps_latitude, gps_longitude |-> metadata.gps_longitude,
     location_state |-> None, location_country |-> None,
     keywords |-> metadata.keywords]

\* What process_media_file does to files and tables.
SourceExists == [op |-> "exists", on |-> "source"]
SourceRead == [op |-> "read", on |-> "source"]
OriginalWrite == [op |-> "write", on |-> "original"]
ThumbnailWrite == [op |-> "write", on |-> "thumbnail"]
MediaInsert == [op |-> "insert", on |-> "media"]

\* A process_media_file that inserts the record before it copies the file.
process_steps_insert_first(kind, env) ==
    <<SourceExists>>
    \o (IF validate_media_file(env.exists, kind) = None THEN <<>>
        ELSE <<SourceRead, MediaInsert>>
             \o (IF ~env.copy_ok THEN <<SourceRead>> ELSE <<SourceRead, OriginalWrite>>))

\* process_media_file, step by step, up to its return or the exception that
\* ends it: _validate_media_file, generate_complete_metadata,
\* _save_original_file (shutil.copy2), _generate_thumbnails, then
\* _insert_media_record.
process_steps(kind, env) ==
    <<SourceExists>>
    \o (IF validate_media_file(env.exists, kind) = None THEN <<>>
        ELSE <<SourceRead>>
             \o (IF ~env.copy_ok THEN <<SourceRead>>
                 ELSE <<SourceRead, OriginalWrite>>
                      \o (IF env.thumb_ok THEN <<ThumbnailWrite>> ELSE <<>>)
                      \o <<MediaInsert>>))

\* What the steps of process_media_file depend on in the environment.
StepEnvs == [exists : BOOLEAN, copy_ok : BOOLEAN, thumb_ok : BOOLEAN]

\* Whether the steps hold the step.
Did(steps, step) == \E i \in 1..Len(steps) : steps[i] = step

\* process_media_file on a file of the given kind. env: whether the source
\* exists, whether copy2 and the thumbnail tool succeed, the geocoding
\* configuration and what a lookup returns. The result tells what was
\* returned or raised and what was left behind on disk and in the table.
process_media_file(table, kind, env) ==
    LET media_type == validate_media_file(env.exists, kind)
        metadata == generate_complete_metadata(ContentsOf(kind), env.geo_enabled, env.place)
        thumb == IF env.thumb_ok THEN "thumb" ELSE None
        ins == insert_returning_id(table, media_record(metadata, thumb))
        steps == process_steps(kind, env)
        copied == Did(steps, OriginalWrite)
        thumbnail == Did(steps, ThumbnailWrite)
    IN IF media_type = None
       THEN [raised |-> None, id |-> 0, table |-> table, copied |-> copied,
             thumbnail |-> thumbnail, looked_up |-> FALSE]
       ELSE IF ~env.copy_ok
       THEN [raised |-> "OSError", id |-> 0, table |-> table, copied |-> copied,
             thumbnail |-> thumbnail, looked_up |-> metadata.looked_up]
       ELSE [raised |-> ins.raised, id |-> ins.id, table |-> ins.table, copied |-> copied,
             thumbnail |-> thumbnail, looked_up |-> metadata.looked_up]

-----------------------------------------------------------------------------
(* The threads *)

RegenThreadIds == {"t1", "t2"}
ImportThreadIds == {"i1", "i2"}

\* geo: where the thread is in the reverse lookup of the item at hand, when
\* the lookup is followed step by step ("none", "lookup", "sleep", "slept").
NoRegenThread ==
    [pc |-> "idle", missing_only |-> FALSE, total |-> 0, idx |-> 0, seen |-> FALSE,
     geo |-> "none"]
NoImportThread == [pc |-> "idle", source |-> "local", total |-> 0, idx |-> 0, geo |-> "none"]

NoResponse == [op |-> "none", code |-> "none"]
NoSnapshot == [kind |-> "none", job |-> NoJob]

\* No import root looked at.
NoListing == [tree |-> {}, case_sensitive |-> TRUE, collected |-> <<>>, done |-> FALSE]

\* What a tool run (ffmpeg, convert) can come to: whether it ran to a zero
\* exit status in time, and whether it left its output file behind.
ToolRuns == [ran : BOOLEAN, wrote : BOOLEAN]

\* No call of generate_video_thumbnail. env: whether the output directory can
\* be made, what ffmpeg and convert come to, whether unlink succeeds. temp
\* and output: whether <output>.temp.jpg and the thumbnail exist.
NoVideoThumb ==
    [pc |-> "none", result |-> FALSE, temp |-> FALSE, output |-> FALSE,
     env |-> [dir_ok |-> TRUE, ffmpeg |-> [ran |-> TRUE, wrote |-> TRUE],
              convert |-> [ran |-> TRUE, wrote |-> TRUE], unlink_ok |-> TRUE]]

\* No call of _collect_webdav_files. dirs: the directories of the remote
\* tree, as paths below the root; with_file: those that hold a file;
\* failing: those whose listing raises; dots: whether listings name "." and
\* "..". stack and files are the locals of the call; listed is the history
\* of the directories listed.
NoTraversal ==
    [dirs |-> {}, with_file |-> {}, failing |-> {}, dots |-> FALSE,
     stack |-> <<>>, files |-> <<>>, listed |-> <<>>, returned |-> FALSE]

\* A connection with no statement executed: the ids of the rows the run has
\* handled so far, in the order it handled them, and the number of writes
\* executed since the last commit.
NoConnection == [handled |-> <<>>, uncommitted |-> 0]

NoRow == [id |-> 0, missing_only |-> FALSE, kind |-> "none", existing |-> <<>>,
          metadata |-> <<>>]

\* The module state of importer.py and regenerator.py after import, no
\* request handled yet, and empty tag tables.
Quiet ==
    /\ regenJob = NoJob
    /\ cancel_requested = FALSE
    /\ importJob = NoJob
    /\ lists = [r \in Refs |-> <<>>]
    /\ importThreads = [t \in ImportThreadIds |-> NoImportThread]
    /\ handler = "ready"
    /\ response = NoResponse
    /\ snapshot = NoSnapshot
    /\ snapshotAt = NoJob
    /\ stored = [originals |-> 0, thumbnails |-> 0, deleted |-> 0]
    /\ rows = <<>>
    /\ tags = <<>>
    /\ media_tags = <<>>
    /\ merged = {}
    /\ lastRow = NoRow
    /\ connection = NoConnection
    /\ cancelMidRun = FALSE
    /\ touchedAfterSeen = FALSE

\* A regeneration thread that has just been spawned.
SpawnedRegen(missing_only) ==
    [NoRegenThread EXCEPT !.pc = "begin", !.missing_only = missing_only]

\* main._start_background_tasks: the application starts with a missing-only
\* regeneration thread already spawned.
Started ==
    /\ Quiet
    /\ importRoot = NoListing
    /\ videoThumb = NoVideoThumb
    /\ remote = NoTraversal
    /\ regenThreads = [t \in RegenThreadIds |->
                         IF t = "t1" THEN SpawnedRegen(TRUE) ELSE NoRegenThread]
    /\ media = <<>>

\* The thread slots a behaviour uses, and whether status requests arrive in
\* it: two threads of one kind, or one thread of a kind with status requests.
\* With import threads in use the startup thread is not scheduled. The files
\* that imports leave on disk are counted where one import thread runs.
Scenarios ==
    {[regen |-> {"t1", "t2"}, import |-> {}, status |-> FALSE, disk |-> FALSE],
     [regen |-> {"t1"}, import |-> {}, status |-> TRUE, disk |-> FALSE],
     [regen |-> {}, import |-> {"i1", "i2"}, status |-> FALSE, disk |-> FALSE],
     [regen |-> {}, import |-> {"i1"}, status |-> TRUE, disk |-> TRUE]}

Init == Started /\ scope \in Scenarios

\* The heap after a step: lists that nothing refers to are gone.
Heap(h, rj, ij, sn) == Collect(h, LiveRefs(rj, ij, sn.job))

-----------------------------------------------------------------------------
(* regenerator.run_regeneration, one step per lock section or record *)

\* _clear_cancel_request() at the start of run_regeneration
RegenBegin(t) ==
    /\ t \in scope.regen
    /\ regenThreads[t].pc = "begin"
    /\ cancel_requested' = FALSE
    /\ regenThreads' = [regenThreads EXCEPT ![t].pc = "start"]
    /\ response' = NoResponse
    /\ UNCHANGED <<regenJob, importJob, lists, importThreads, handler, snapVars, diskVars, histVars>>

\* _start_job()
RegenStart(t) ==
    /\ regenThreads[t].pc = "start"
    /\ LET fresh == NewList(LiveRefs(regenJob, importJob, snapshot.job))
           job == start_job(regenJob, fresh)
       IN /\ regenJob' = job
          /\ lists' = Heap(lists, job, importJob, snapshot)
          /\ cancelMidRun' = IF job = regenJob THEN cancelMidRun ELSE FALSE
    /\ regenThreads' = [regenThreads EXCEPT ![t].pc = "fetch"]
    /\ response' = NoResponse
    /\ UNCHANGED <<cancel_requested, importJob, importThreads, handler, snapVars, diskVars,
                   touchedAfterSeen>>

\* fetch_all(... ORDER BY id) and _update_job_totals(len(rows)); a database
\* error (sqlite3.Error) is not caught by `except (OSError, ValueError)` and
\* ends the thread.
RegenFetchWith(t, ok) ==
    /\ regenThreads[t].pc = "fetch"
    /\ IF ok
       THEN /\ regenJob' = update_job_totals(regenJob, MaxRecords)
            /\ regenThreads' = [regenThreads EXCEPT
                                  ![t].total = MaxRecords, ![t].idx = 0,
                                  ![t].pc = IF MaxRecords = 0 THEN "finish" ELSE "check"]
       ELSE /\ regenJob' = regenJob
            /\ regenThreads' = [regenThreads EXCEPT ![t] = NoRegenThread]
    /\ response' = NoResponse
    /\ UNCHANGED <<cancel_requested, importJob, lists, importThreads, handler, snapVars,
                   diskVars, histVars>>

RegenFetch(t) == \E ok \in BOOLEAN : RegenFetchWith(t, ok)

\* `if _is_cancel_requested():` at the top of an iteration
RegenCheck(t) ==
    /\ regenThreads[t].pc = "check"
    /\ regenThreads' = [regenThreads EXCEPT
                          ![t].pc = IF cancel_requested THEN "cancelled" ELSE "work",
                          ![t].seen = cancel_requested]
    /\ response' = NoResponse
    /\ UNCHANGED <<jobVars, importThreads, handler, snapVars, diskVars, histVars>>

\* What the body of an iteration can come to for one record.
RecordOutcomes(missing_only) ==
    {[kind |-> "missing", metadata |-> FALSE, thumbnail |-> FALSE, tags |-> 0],
     [kind |-> "updated", metadata |-> TRUE, thumbnail |-> TRUE, tags |-> 1],
     [kind |-> "error", metadata |-> FALSE, thumbnail |-> FALSE, tags |-> 0],
     [kind |-> "crash", metadata |-> FALSE, thumbnail |-> FALSE, tags |-> 0]}
    \cup (IF missing_only
          THEN {[kind |-> "skipped", metadata |-> FALSE, thumbnail |-> FALSE, tags |-> 0]}
          ELSE {})

\* The pc after the body of iteration idx: the for loop ends without another
\* look at the flag.
AfterRecord(th) == IF th.idx + 1 = th.total THEN "finish" ELSE "check"

\* The body of one iteration: the record is read, re-extracted and written,
\* then _update_job_progress. OSError and ValueError reach the handler of
\* run_regeneration; any other exception ends the thread.
RegenRecordWith(t, o) ==
    /\ regenThreads[t].pc = "work"
    /\ o \in RecordOutcomes(regenThreads[t].missing_only)
    /\ regenJob' = IF o.kind \in {"error", "crash"} THEN regenJob
                   ELSE update_job_progress(regenJob, o.metadata, o.thumbnail, o.tags)
    /\ lists' = IF o.kind = "missing" THEN Append1(lists, regenJob, "Missing file")
                ELSE lists
    /\ regenThreads' = [regenThreads EXCEPT ![t] =
                          IF o.kind = "crash" THEN NoRegenThread
                          ELSE IF o.kind = "error"
                          THEN [@ EXCEPT !.pc = "fail", !.geo = "none"]
                          ELSE [@ EXCEPT !.pc = AfterRecord(regenThreads[t]),
                                         !.idx = @ + 1, !.geo = "none"]]
    /\ touchedAfterSeen' = (touchedAfterSeen \/ regenThreads[t].seen)
    /\ response' = NoResponse
    /\ UNCHANGED <<cancel_requested, importJob, importThreads, handler, snapVars, diskVars,
                   cancelMidRun>>

RegenRecord(t) ==
    \E o \in RecordOutcomes(regenThreads[t].missing_only) : RegenRecordWith(t, o)

\* _finalize_job_cancelled()
RegenCancelled(t) ==
    /\ regenThreads[t].pc = "cancelled"
    /\ regenJob' = finalize_job_cancelled(regenJob)
    /\ regenThreads' = [regenThreads EXCEPT ![t].pc = "unset"]
    /\ response' = NoResponse
    /\ UNCHANGED <<cancel_requested, importJob, lists, importThreads, handler, snapVars,
                   diskVars, histVars>>

\* _clear_cancel_request(); return
RegenUnset(t) ==
    /\ regenThreads[t].pc = "unset"
    /\ cancel_requested' = FALSE
    /\ regenThreads' = [regenThreads EXCEPT ![t] = NoRegenThread]
    /\ response' = NoResponse
    /\ UNCHANGED <<regenJob, importJob, lists, importThreads, handler, snapVars, diskVars, histVars>>

\* _finalize_job_success()
RegenFinish(t) ==
    /\ regenThreads[t].pc = "finish"
    /\ regenJob' = finalize_job_success(regenJob)
    /\ regenThreads' = [regenThreads EXCEPT ![t] = NoRegenThread]
    /\ response' = NoResponse
    /\ UNCHANGED <<cancel_requested, importJob, lists, importThreads, handler, snapVars,
                   diskVars, histVars>>

\* except (OSError, ValueError): _finalize_job_failure(...)
RegenFail(t) ==
    /\ regenThreads[t].pc = "fail"
    /\ regenJob' = finalize_job_failure_fields(regenJob)
    /\ lists' = Append1(lists, regenJob, "Regeneration failed")
    /\ regenThreads' = [regenThreads EXCEPT ![t] = NoRegenThread]
    /\ response' = NoResponse
    /\ UNCHANGED <<cancel_requested, importJob, importThreads, handler, snapVars, diskVars,
                   histVars>>

\* clear_all_metadata_and_thumbnails() in the thread of trigger_reset; a
\* database error ends the thread before run_regeneration is called.
ResetClear(t) ==
    /\ regenThreads[t].pc = "clearing"
    /\ \E ok \in BOOLEAN :
         regenThreads' = [regenThreads EXCEPT ![t] =
                            IF ok THEN [@ EXCEPT !.pc = "begin"] ELSE NoRegenThread]
    /\ response' = NoResponse
    /\ UNCHANGED <<jobVars, importThreads, handler, snapVars, diskVars, histVars>>

-----------------------------------------------------------------------------
(* importer.run_local_import and run_webdav_import *)

\* _start_import_job()
ImportStart(t) ==
    /\ importThreads[t].pc = "start"
    /\ LET fresh == NewList(LiveRefs(regenJob, importJob, snapshot.job))
           job == start_import_job(importJob, fresh)
       IN /\ importJob' = job
          /\ lists' = Heap(lists, regenJob, job, snapshot)
    /\ importThreads' = [importThreads EXCEPT ![t].pc = "collect"]
    /\ response' = NoResponse
    /\ UNCHANGED <<regenJob, cancel_requested, regenThreads, handler, snapVars, diskVars,
                   histVars>>

\* How an enumeration can end: with the listing, with an OSError, or with
\* an exception of the WebDAV client's own classes.
Listings(source) ==
    IF source = "local" THEN {"listed", "OSError"} ELSE {"listed", "OSError", "error"}

\* The enumeration and _update_job_totals. An OSError of _collect_import_files
\* reaches the handler of the run; _list_webdav_files turns an OSError of
\* client.list into an empty listing; any other exception ends the thread.
ImportCollectWith(t, listing, n) ==
    /\ importThreads[t].pc = "collect"
    /\ listing \in Listings(importThreads[t].source)
    /\ LET swallowed == importThreads[t].source = "webdav" /\ listing = "OSError"
           count == IF swallowed THEN 0 ELSE n
       IN IF listing = "listed" \/ swallowed
          THEN /\ importJob' = import_update_job_totals(importJob, count)
               /\ importThreads' = [importThreads EXCEPT
                                      ![t].total = count, ![t].idx = 0,
                                      ![t].pc = IF count = 0 THEN "finish" ELSE "file"]
          ELSE /\ importJob' = importJob
               /\ importThreads' = [importThreads EXCEPT ![t] =
                                      IF listing = "OSError" THEN [@ EXCEPT !.pc = "fail"]
                                      ELSE NoImportThread]
    /\ response' = NoResponse
    /\ UNCHANGED <<regenJob, cancel_requested, lists, regenThreads, handler, snapVars,
                   diskVars, histVars>>

ImportCollect(t) ==
    \E listing \in {"listed", "OSError", "error"}, n \in 0..MaxFiles :
        ImportCollectWith(t, listing, n)

\* The file of one iteration of an import loop and what the environment does
\* during the iteration: what the file is, whether
\* it is there when the loop looks (or the download succeeds), whether it
\* is there when process_media_file validates it, whether the copy, the
\* thumbnail tool and the unlink succeed, the geocoding switch and what a
\* lookup resolves.
Envs ==
    [kind : FileKinds, present : BOOLEAN, exists : BOOLEAN, copy_ok : BOOLEAN, thumb_ok : BOOLEAN,
     unlink_ok : BOOLEAN, geo_enabled : BOOLEAN, place : Places]

\* An import loop that unlinks the file that process_media_file rejected.
import_iteration_unlink_rejected(table, source, env) ==
    LET res == process_media_file(table, env.kind, env)
        missing == IF source = "local" THEN "Missing file" ELSE "Failed to download"
    IN IF ~env.present
       THEN [end |-> "progress", success |-> FALSE, error |-> missing, res |-> res,
             processed |-> FALSE, unlinked |-> FALSE]
       ELSE IF res.raised = "OSError"
       THEN [end |-> "fail", success |-> FALSE, error |-> None, res |-> res,
             processed |-> TRUE, unlinked |-> FALSE]
       ELSE IF res.raised # None
       THEN [end |-> "crash", success |-> FALSE, error |-> None, res |-> res,
             processed |-> TRUE, unlinked |-> FALSE]
       ELSE IF res.id = 0
       THEN [end |-> "progress", success |-> FALSE, error |-> "Failed to process",
             res |-> res, processed |-> TRUE, unlinked |-> TRUE]
       ELSE IF ~env.unlink_ok
       THEN [end |-> "progress", success |-> FALSE, error |-> "Failed to delete",
             res |-> res, processed |-> TRUE, unlinked |-> FALSE]
       ELSE [end |-> "progress", success |-> TRUE, error |-> None, res |-> res,
             processed |-> TRUE, unlinked |-> TRUE]

\* How one iteration of the import loop ends: the progress update it makes,
\* or the exception that leaves the loop.
ImportIteration(table, source, env) ==
    LET res == process_media_file(table, env.kind, env)
        missing == IF source = "local" THEN "Missing file" ELSE "Failed to download"
    IN IF ~env.present
       THEN [end |-> "progress", success |-> FALSE, error |-> missing, res |-> res,
             processed |-> FALSE, unlinked |-> FALSE]
       ELSE IF res.raised = "OSError"
       THEN [end |-> "fail", success |-> FALSE, error |-> None, res |-> res,
             processed |-> TRUE, unlinked |-> FALSE]
       ELSE IF res.raised # None
       THEN [end |-> "crash", success |-> FALSE, error |-> None, res |-> res,
             processed |-> TRUE, unlinked |-> FALSE]
       ELSE IF res.id = 0
       THEN [end |-> "progress", success |-> FALSE, error |-> "Failed to process",
             res |-> res, processed |-> TRUE, unlinked |-> FALSE]
       ELSE IF ~env.unlink_ok
       THEN [end |-> "progress", success |-> FALSE, error |-> "Failed to delete",
             res |-> res, processed |-> TRUE, unlinked |-> FALSE]
       ELSE [end |-> "progress", success |-> TRUE, error |-> None, res |-> res,
             processed |-> TRUE, unlinked |-> TRUE]

\* One iteration of the loop over the enumerated files, ending as `it`.
ImportIterate(t, it) ==
    /\ importThreads[t].pc = "file"
    /\ LET th == importThreads[t]
       IN /\ importJob' = IF it.end = "progress"
                          THEN import_update_job_progress(importJob, it.success)
                          ELSE importJob
          /\ lists' = IF it.end = "progress" /\ ~it.success
                      THEN Append1(lists, importJob, it.error) ELSE lists
          /\ importThreads' = [importThreads EXCEPT ![t] =
                                 IF it.end = "crash" THEN NoImportThread
                                 ELSE IF it.end = "fail"
                                 THEN [@ EXCEPT !.pc = "fail", !.geo = "none"]
                                 ELSE [@ EXCEPT !.idx = @ + 1, !.geo = "none",
                                                !.pc = IF th.idx + 1 = th.total
                                                       THEN "finish" ELSE "file"]]
          /\ media' = IF it.processed THEN it.res.table ELSE media
          /\ stored' = IF it.processed /\ scope.disk
                       THEN [originals |-> stored.originals + (IF it.res.copied THEN 1 ELSE 0),
                             thumbnails |-> stored.thumbnails
                                            + (IF it.res.thumbnail THEN 1 ELSE 0),
                             deleted |-> stored.deleted + (IF it.unlinked THEN 1 ELSE 0)]
                       ELSE stored
    /\ response' = NoResponse
    /\ UNCHANGED <<regenJob, cancel_requested, regenThreads, handler, snapVars, scope, dbVars,
                   histVars>>

ImportFileWith(t, env) ==
    LET th == importThreads[t]
    IN ImportIterate(t, ImportIteration(media, th.source, env))

ImportFile(t) ==
    /\ importThreads[t].pc = "file"
    /\ LET th == importThreads[t]
       IN \E it \in {ImportIteration(media, th.source, env) : env \in Envs} :
             ImportIterate(t, it)

\* _finalize_job_success()
ImportFinish(t) ==
    /\ importThreads[t].pc = "finish"
    /\ importJob' = import_finalize_job_success(importJob)
    /\ importThreads' = [importThreads EXCEPT ![t] = NoImportThread]
    /\ response' = NoResponse
    /\ UNCHANGED <<regenJob, cancel_requested, lists, regenThreads, handler, snapVars,
                   diskVars, histVars>>

\* except (OSError, ValueError): _finalize_job_failure(...)
ImportFail(t) ==
    /\ importThreads[t].pc = "fail"
    /\ importJob' = import_finalize_job_failure_fields(importJob)
    /\ lists' = Append1(lists, importJob, "Import failed")
    /\ importThreads' = [importThreads EXCEPT ![t] = NoImportThread]
    /\ response' = NoResponse
    /\ UNCHANGED <<regenJob, cancel_requested, regenThreads, handler, snapVars, diskVars,
                   histVars>>

-----------------------------------------------------------------------------
(* routes/imports.py: the request handlers, which run one at a time on the
   event loop *)

\* threading.Thread(...).start(): the thread takes a free slot.
FreeRegenThread == CHOOSE t \in scope.regen : regenThreads[t].pc = "idle"
FreeImportThread == CHOOSE t \in scope.import : importThreads[t].pc = "idle"
HasFreeRegenThread == \E t \in scope.regen : regenThreads[t].pc = "idle"
HasFreeImportThread == \E t \in scope.import : importThreads[t].pc = "idle"

SpawnImport(source) ==
    [importThreads EXCEPT ![FreeImportThread] =
        [NoImportThread EXCEPT !.pc = "start", !.source = source]]

SpawnRegen(pc, missing_only) ==
    [regenThreads EXCEPT ![FreeRegenThread] =
        [NoRegenThread EXCEPT !.pc = pc, !.missing_only = missing_only]]

\* POST /import/local
trigger_local_import ==
    /\ handler = "ready"
    /\ is_import_running(importJob) \/ HasFreeImportThread
    /\ IF is_import_running(importJob)
       THEN /\ response' = [op |-> "local", code |-> "409"]
            /\ importThreads' = importThreads
       ELSE /\ response' = [op |-> "local", code |-> "200"]
            /\ importThreads' = SpawnImport("local")
    /\ UNCHANGED <<jobVars, regenThreads, handler, snapVars, diskVars, histVars>>

\* POST /import/webdav; the WebDAV settings are looked at after the job.
trigger_webdav_import ==
    /\ handler = "ready"
    /\ is_import_running(importJob) \/ HasFreeImportThread
    /\ \E configured \in BOOLEAN :
         IF is_import_running(importJob)
         THEN /\ response' = [op |-> "webdav", code |-> "409"]
              /\ importThreads' = importThreads
         ELSE IF ~configured
         THEN /\ response' = [op |-> "webdav", code |-> "400"]
              /\ importThreads' = importThreads
         ELSE /\ response' = [op |-> "webdav", code |-> "200"]
              /\ importThreads' = SpawnImport("webdav")
    /\ UNCHANGED <<jobVars, regenThreads, handler, snapVars, diskVars, histVars>>

\* POST /import/regenerate
trigger_regeneration ==
    /\ handler = "ready"
    /\ is_regeneration_running(regenJob) \/ HasFreeRegenThread
    /\ \E missing_only \in BOOLEAN :
         IF is_regeneration_running(regenJob)
         THEN /\ response' = [op |-> "regenerate", code |-> "409"]
              /\ regenThreads' = regenThreads
         ELSE /\ response' = [op |-> "regenerate", code |-> "200"]
              /\ regenThreads' = SpawnRegen("begin", missing_only)
    /\ UNCHANGED <<jobVars, importThreads, handler, snapVars, diskVars, histVars>>

\* POST /import/reset, up to its look at the regeneration job
trigger_reset ==
    /\ handler = "ready"
    /\ scope.regen # {}
    /\ IF is_regeneration_running(regenJob)
       THEN /\ response' = [op |-> "reset", code |-> "409"]
            /\ handler' = "ready"
       ELSE /\ response' = NoResponse
            /\ handler' = "reset"
    /\ UNCHANGED <<jobVars, threadVars, snapVars, diskVars, histVars>>

\* POST /import/reset, from its look at the import job on
trigger_reset_import ==
    /\ handler = "reset"
    /\ is_import_running(importJob) \/ HasFreeRegenThread
    /\ IF is_import_running(importJob)
       THEN /\ response' = [op |-> "reset", code |-> "409"]
            /\ regenThreads' = regenThreads
       ELSE /\ response' = [op |-> "reset", code |-> "200"]
            /\ regenThreads' = SpawnRegen("clearing", FALSE)
    /\ handler' = "ready"
    /\ UNCHANGED <<jobVars, importThreads, snapVars, diskVars, histVars>>

\* A cancel that takes any existing job, whatever its status.
cancel_regeneration_any_job(job, flag) ==
    IF job.status = "none"
    THEN [accepted |-> FALSE, flag |-> flag]
    ELSE [accepted |-> TRUE, flag |-> TRUE]

\* regenerator.cancel_regeneration: what it returns and the flag afterwards.
cancel_regeneration(job, flag) ==
    IF job.status # "running"
    THEN [accepted |-> FALSE, flag |-> flag]
    ELSE [accepted |-> TRUE, flag |-> TRUE]

\* POST /import/regenerate/cancel
cancel_regeneration_job ==
    /\ handler = "ready"
    /\ LET r == cancel_regeneration(regenJob, cancel_requested)
       IN /\ cancel_requested' = r.flag
          /\ response' = [op |-> "cancel",
                          code |-> IF r.accepted THEN "cancelling" ELSE "idle"]
          /\ cancelMidRun' = (cancelMidRun
                               \/ (r.accepted
                                   /\ regenJob.processed_media < regenJob.total_media))
    /\ UNCHANGED <<regenJob, importJob, lists, threadVars, handler, snapVars, diskVars,
                   touchedAfterSeen>>

\* The values of the job a status request reads, at the instant it reads.
IdleRegenerationJob == RegenerationJob("idle", None, <<>>)
IdleImportJob == ImportJob("idle", None, <<>>)

\* POST /import/regenerate/status
get_regeneration_job_status ==
    /\ handler = "ready"
    /\ scope.status /\ scope.regen # {}
    /\ LET fresh == NewList(LiveRefs(regenJob, importJob, NoJob))
           got == [kind |-> "regeneration", job |-> get_regeneration_status(regenJob, fresh)]
       IN /\ snapshot' = got
          /\ lists' = Heap([lists EXCEPT ![fresh] = status_errors(regenJob, lists)],
                           regenJob, importJob, got)
    /\ snapshotAt' = IF regenJob.status = "none" THEN IdleRegenerationJob
                     ELSE Deep(regenJob, lists)
    /\ response' = [op |-> "regeneration_status", code |-> "200"]
    /\ UNCHANGED <<regenJob, cancel_requested, importJob, threadVars, handler, diskVars,
                   histVars>>

\* POST /import/status
get_import_job_status ==
    /\ handler = "ready"
    /\ scope.status /\ scope.import # {}
    /\ LET fresh == NewList(LiveRefs(regenJob, importJob, NoJob))
           got == [kind |-> "import", job |-> get_import_status(importJob, fresh)]
       IN /\ snapshot' = got
          /\ lists' = Heap([lists EXCEPT ![fresh] = status_errors(importJob, lists)],
                           regenJob, importJob, got)
    /\ snapshotAt' = IF importJob.status = "none" THEN IdleImportJob
                     ELSE Deep(importJob, lists)
    /\ response' = [op |-> "import_status", code |-> "200"]
    /\ UNCHANGED <<regenJob, cancel_requested, importJob, threadVars, handler, diskVars,
                   histVars>>

-----------------------------------------------------------------------------

RegenStep(t) ==
    \/ RegenBegin(t) \/ RegenStart(t) \/ RegenFetch(t) \/ RegenCheck(t) \/ RegenRecord(t)
    \/ RegenCancelled(t) \/ RegenUnset(t) \/ RegenFinish(t) \/ RegenFail(t) \/ ResetClear(t)

ImportStep(t) ==
    \/ ImportStart(t) \/ ImportCollect(t) \/ ImportFile(t) \/ ImportFinish(t) \/ ImportFail(t)

Request ==
    \/ trigger_local_import \/ trigger_webdav_import \/ trigger_regeneration
    \/ trigger_reset \/ trigger_reset_import \/ cancel_regeneration_job
    \/ get_regeneration_job_status \/ get_import_job_status

Next ==
    \/ \E t \in RegenThreadIds : RegenStep(t)
    \/ \E t \in ImportThreadIds : ImportStep(t)
    \/ Request

Spec == Init /\ [][Next]_vars

\* Every thread that can take a step is scheduled sooner or later, every
\* external call returning or raising; requests may or may not arrive.
SpecFair ==
    /\ Spec
    /\ \A t \in RegenThreadIds : WF_vars(RegenStep(t))
    /\ \A t \in ImportThreadIds : WF_vars(ImportStep(t))

-----------------------------------------------------------------------------
(* media_processor.generate_complete_metadata: the reverse lookup followed
   step by step, with an import and a full regeneration at work *)

\* An import thread and a triggered regeneration thread.
BothKinds == [regen |-> {"t2"}, import |-> {"i1"}, status |-> FALSE, disk |-> FALSE]

\* The body of an iteration reaches _reverse_geocode: urlopen is called.
\* run_regeneration passes the geocoding configuration in full mode only.
RegenGeoIssue(t) ==
    /\ regenThreads[t].pc = "work"
    /\ ~regenThreads[t].missing_only
    /\ regenThreads[t].geo = "none"
    /\ regenThreads' = [regenThreads EXCEPT ![t].geo = "lookup"]
    /\ response' = NoResponse
    /\ UNCHANGED <<jobVars, importThreads, handler, snapVars, diskVars, histVars>>

\* urlopen returns or raises; time.sleep(rate_limit_seconds) begins.
RegenGeoReturn(t) ==
    /\ regenThreads[t].geo = "lookup"
    /\ regenThreads' = [regenThreads EXCEPT ![t].geo = "sleep"]
    /\ response' = NoResponse
    /\ UNCHANGED <<jobVars, importThreads, handler, snapVars, diskVars, histVars>>

\* time.sleep returns.
RegenGeoWake(t) ==
    /\ regenThreads[t].geo = "sleep"
    /\ regenThreads' = [regenThreads EXCEPT ![t].geo = "slept"]
    /\ response' = NoResponse
    /\ UNCHANGED <<jobVars, importThreads, handler, snapVars, diskVars, histVars>>

\* The rest of the body. A record whose file is missing, or which is
\* skipped, never reaches generate_complete_metadata.
RegenGeoRecord(t) ==
    /\ regenThreads[t].geo \in {"none", "slept"}
    /\ \E o \in RecordOutcomes(regenThreads[t].missing_only) :
         /\ regenThreads[t].geo = "slept" => o.kind \in {"updated", "error", "crash"}
         /\ RegenRecordWith(t, o)

ImportGeoIssue(t) ==
    /\ importThreads[t].pc = "file"
    /\ importThreads[t].geo = "none"
    /\ importThreads' = [importThreads EXCEPT ![t].geo = "lookup"]
    /\ response' = NoResponse
    /\ UNCHANGED <<jobVars, regenThreads, handler, snapVars, diskVars, histVars>>

ImportGeoReturn(t) ==
    /\ importThreads[t].geo = "lookup"
    /\ importThreads' = [importThreads EXCEPT ![t].geo = "sleep"]
    /\ response' = NoResponse
    /\ UNCHANGED <<jobVars, regenThreads, handler, snapVars, diskVars, histVars>>

ImportGeoWake(t) ==
    /\ importThreads[t].geo = "sleep"
    /\ importThreads' = [importThreads EXCEPT ![t].geo = "slept"]
    /\ response' = NoResponse
    /\ UNCHANGED <<jobVars, regenThreads, handler, snapVars, diskVars, histVars>>

\* The rest of the iteration: it made a lookup exactly when the file was
\* there and process_media_file looked its coordinates up.
ImportGeoFile(t) ==
    /\ importThreads[t].geo \in {"none", "slept"}
    /\ \E env \in Envs :
         /\ (importThreads[t].geo = "slept")
            = (env.present /\ process_media_file(media, env.kind, env).looked_up)
         /\ ImportFileWith(t, env)

InitGeo == Started /\ scope = BothKinds

NextGeo ==
    \/ \E t \in RegenThreadIds :
         \/ RegenBegin(t) \/ RegenStart(t) \/ RegenFetch(t) \/ RegenCheck(t)
         \/ RegenGeoIssue(t) \/ RegenGeoReturn(t) \/ RegenGeoWake(t) \/ RegenGeoRecord(t)
         \/ RegenFinish(t) \/ RegenFail(t)
    \/ \E t \in ImportThreadIds :
         \/ ImportStart(t) \/ ImportCollect(t)
         \/ ImportGeoIssue(t) \/ ImportGeoReturn(t) \/ ImportGeoWake(t) \/ ImportGeoFile(t)
         \/ ImportFinish(t) \/ ImportFail(t)
    \/ trigger_local_import \/ trigger_regeneration

SpecGeo == InitGeo /\ [][NextGeo]_vars

\* The threads with a lookup in flight, and those in the sleep after one.
InLookup ==
    {t \in RegenThreadIds : regenThreads[t].geo = "lookup"}
    \cup {t \in ImportThreadIds : importThreads[t].geo = "lookup"}
InRateLimitSleep ==
    {t \in RegenThreadIds : regenThreads[t].geo = "sleep"}
    \cup {t \in ImportThreadIds : importThreads[t].geo = "sleep"}

\* C15: at most one reverse lookup is in flight in the whole system, and no
\* lookup is in flight while a thread is still in the rate-limit sleep that
\* follows its own lookup.
C15_LookupsSerialized ==
    /\ Cardinality(InLookup) <= 1
    /\ InLookup # {} => InRateLimitSleep = {}

-----------------------------------------------------------------------------
(* regenerator._merge_keyword_tags *)

Comma == ","
Blank == " "

\* The characters of the keyword strings in use. A word stands for a run of
\* characters that are neither commas nor white space.
Chars(keywords) ==
    CASE keywords = "" -> <<>>
      [] keywords = "beach" -> <<"beach">>
      [] keywords = "beach,sunset" -> <<"beach", Comma, "sunset">>
      [] keywords = "sunset, beach" -> <<"sunset", Comma, Blank, "beach">>
      [] keywords = "beach,beach" -> <<"beach", Comma, "beach">>
      [] keywords = " beach ,,sunset " ->
           <<Blank, "beach", Blank, Comma, Comma, "sunset", Blank>>
      [] keywords = " , " -> <<Blank, Comma, Blank>>
      [] keywords = "dusk ,beach" -> <<"dusk", Blank, Comma, "beach">>

KeywordStrings ==
    {"", "beach", "beach,sunset", "sunset, beach", "beach,beach", " beach ,,sunset ", " , ",
     "dusk ,beach"}

HasComma(s) == \E i \in 1..Len(s) : s[i] = Comma
FirstComma(s) == CHOOSE i \in 1..Len(s) : s[i] = Comma /\ \A j \in 1..(i - 1) : s[j] # Comma

\* str.split(",")
RECURSIVE split(_)
split(s) ==
    IF ~HasComma(s) THEN <<s>>
    ELSE <<SubSeq(s, 1, FirstComma(s) - 1)>> \o split(SubSeq(s, FirstComma(s) + 1, Len(s)))

\* str.strip()
RECURSIVE strip(_)
strip(s) ==
    IF s = <<>> THEN s
    ELSE IF Head(s) = Blank THEN strip(Tail(s))
    ELSE IF s[Len(s)] = Blank THEN strip(SubSeq(s, 1, Len(s) - 1))
    ELSE s

\* `tags = [tag for tag in raw_tags if tag]`, or no tag at all for a None or
\* empty keyword string
keyword_tokens(keywords) ==
    IF keywords = None \/ keywords = "" THEN <<>>
    ELSE LET pieces == split(Chars(keywords))
             raw_tags == [i \in 1..Len(pieces) |-> strip(pieces[i])]
         IN SelectSeq(raw_tags, LAMBDA tag : tag # <<>>)

\* The lookup that never finds a row.
find_tag_nothing(table, name) == 0

\* SELECT id FROM tags WHERE name = ?: the id of the row, 0 for no row.
find_tag(table, name) ==
    IF \E i \in 1..Len(table) : table[i] = name
    THEN CHOOSE i \in 1..Len(table) : table[i] = name /\ \A j \in 1..(i - 1) : table[j] # name
    ELSE 0

\* The key of media_tags: a row with the same media id and tag id is there.
media_tags_conflict(table, row) == \E i \in 1..Len(table) : table[i] = row

\* INSERT OR IGNORE INTO media_tags
insert_or_ignore_media_tag(table, row) ==
    IF media_tags_conflict(table, row) THEN table ELSE Append(table, row)

\* The body of `for tag in tags`
merge_tag(db, media_id, tag) ==
    LET existing == find_tag(db.tags, tag)
        inserted == IF existing # 0 THEN db.tags ELSE Append(db.tags, tag)
        tag_id == IF existing # 0 THEN existing ELSE Len(inserted)
    IN [tags |-> inserted,
        media_tags |-> insert_or_ignore_media_tag(db.media_tags,
                                                  [media_id |-> media_id, tag_id |-> tag_id]),
        inserted_count |-> db.inserted_count + 1]

RECURSIVE merge_tags(_, _, _)
merge_tags(db, media_id, tokens) ==
    IF tokens = <<>> THEN db
    ELSE merge_tags(merge_tag(db, media_id, Head(tokens)), media_id, Tail(tokens))

\* _merge_keyword_tags: the two tables afterwards and the count returned.
merge_keyword_tags(tags_table, media_tags_table, media_id, keywords) ==
    merge_tags([tags |-> tags_table, media_tags |-> media_tags_table, inserted_count |-> 0],
               media_id, keyword_tokens(keywords))

\* The pairs a merge accounts for.
Merged(media_id, keywords) ==
    LET tokens == keyword_tokens(keywords)
    IN {<<media_id, tokens[i]>> : i \in 1..Len(tokens)}

\* Media ids the tag step is called for.
MaxTagMedia == 2

\* One call of _merge_keyword_tags.
MergeKeywordTags(media_id, keywords) ==
    /\ LET db == merge_keyword_tags(tags, media_tags, media_id, keywords)
       IN /\ tags' = db.tags
          /\ media_tags' = db.media_tags
    /\ merged' = merged \cup Merged(media_id, keywords)
    /\ UNCHANGED <<jobVars, threadVars, handler, response, snapVars, media, stored, scope,
                   rows, lastRow, importRoot, connection, videoThumb, remote, histVars>>

NoScope == [regen |-> {}, import |-> {}, status |-> FALSE, disk |-> FALSE]

InitTags ==
    /\ Quiet
    /\ importRoot = NoListing
    /\ videoThumb = NoVideoThumb
    /\ remote = NoTraversal
    /\ regenThreads = [t \in RegenThreadIds |-> NoRegenThread]
    /\ media = <<>>
    /\ scope = NoScope

NextTags ==
    \E media_id \in 1..MaxTagMedia, keywords \in KeywordStrings \cup {None} :
        MergeKeywordTags(media_id, keywords)

SpecTags == InitTags /\ [][NextTags]_vars

\* C8: whatever calls of the tag step were made, every token merged for a
\* record has exactly one row in tags and exactly one association with the
\* record, and the tables hold nothing else.
C8_MergeIsIdempotent ==
    /\ \A p \in merged :
         /\ Cardinality({i \in 1..Len(tags) : tags[i] = p[2]}) = 1
         /\ Cardinality({j \in 1..Len(media_tags) :
                           /\ media_tags[j].media_id = p[1]
                           /\ tags[media_tags[j].tag_id] = p[2]}) = 1
    /\ Len(media_tags) = Cardinality(merged)
    /\ Len(tags) = Cardinality({p[2] : p \in merged})

\* The string "beach,beach" and the string "beach,sunset" have both been
\* merged for record 1, and "beach" for record 2 as well.
C8_Witness ==
    /\ {<<1, <<"beach">> >>, <<1, <<"sunset">> >>, <<2, <<"beach">> >>} \subseteq merged
    /\ Len(media_tags) = 3
    /\ Len(tags) = 2

-----------------------------------------------------------------------------
(* regenerator.run_regeneration record by record: the merge of fresh metadata
   into the stored rows *)

\* The columns of media that the UPDATE of an iteration sets.
UpdatedFields ==
    {"width", "date_taken", "gps_latitude", "gps_longitude", "location_state",
     "location_country", "keywords"}
\* The columns whose NULL makes a row's metadata count as missing.
RequiredFields == {"width", "date_taken", "gps_latitude", "gps_longitude", "keywords"}
\* The columns a regeneration run can set.
RegeneratedFields == UpdatedFields \cup {"thumbnail_path"}

\* A choose that takes the new value whatever it is.
choose_new(missing_only, existing, new_value) ==
    IF missing_only /\ existing # None THEN existing ELSE new_value

\* run_regeneration.choose
choose(missing_only, existing, new_value) ==
    IF missing_only /\ existing # None THEN existing
    ELSE IF new_value # None THEN new_value ELSE existing

\* Values in which date_taken is merged by choose like the other columns.
metadata_values_all_chosen(missing_only, row, metadata) ==
    [f \in UpdatedFields |-> choose(missing_only, row[f], metadata[f])]

\* `metadata_values`: the values the UPDATE of an iteration writes.
metadata_values(missing_only, row, metadata) ==
    [width |-> choose(missing_only, row.width, metadata.width),
     date_taken |-> IF metadata.date_taken # None THEN metadata.date_taken
                    ELSE row.date_taken,
     gps_latitude |-> choose(missing_only, row.gps_latitude, metadata.gps_latitude),
     gps_longitude |-> choose(missing_only, row.gps_longitude, metadata.gps_longitude),
     location_state |-> choose(missing_only, row.location_state, metadata.location_state),
     location_country |-> choose(missing_only, row.location_country,
                                 metadata.location_country),
     keywords |-> choose(missing_only, row.keywords, metadata.keywords)]

\* UPDATE media SET ... WHERE id = ?
update_media(table, id, values) ==
    [table EXCEPT ![id] = [f \in DOMAIN @ |-> IF f \in DOMAIN values THEN values[f] ELSE @[f]]]

\* What the environment is during one iteration: whether the original and
\* the thumbnail file are there, what the original holds, the geocoding
\* switch of the configuration, what a lookup answers and whether the
\* thumbnail tool succeeds.
RowEnvs ==
    [exists : BOOLEAN, thumb_exists : BOOLEAN, file : Contents, geo_enabled : BOOLEAN,
     place : Places, thumb_ok : BOOLEAN]

\* The body of one iteration for the fetched row `row`: what it writes and
\* what it reports to _update_job_progress.
regenerate_row(missing_only, row, env) ==
    LET thumbnail_missing == row.thumbnail_path = None \/ ~env.thumb_exists
        metadata_missing == \E f \in RequiredFields : row[f] = None
        metadata == generate_complete_metadata(env.file, ~missing_only /\ env.geo_enabled,
                                               env.place)
        values == metadata_values(missing_only, row, metadata)
        thumbnail_relative == IF row.thumbnail_path # None THEN row.thumbnail_path
                              ELSE "derived"
        thumbnail_generated == (~missing_only \/ thumbnail_missing) /\ env.thumb_ok
    IN IF ~env.exists
       THEN [kind |-> "missing", values |-> <<>>, thumbnail_generated |-> FALSE,
             metadata |-> <<>>]
       ELSE IF missing_only /\ ~metadata_missing /\ ~thumbnail_missing
       THEN [kind |-> "skipped", values |-> <<>>, thumbnail_generated |-> FALSE,
             metadata |-> <<>>]
       ELSE [kind |-> "updated",
             values |-> IF thumbnail_generated
                        THEN [f \in RegeneratedFields |->
                                IF f = "thumbnail_path" THEN thumbnail_relative
                                ELSE values[f]]
                        ELSE values,
             thumbnail_generated |-> thumbnail_generated,
             metadata |-> metadata]

\* n statements that write.
Writes(n) == [i \in 1..n |-> "write"]

\* A merge of the keyword tags that leaves its inserts uncommitted.
merge_statements_uncommitted(inserted_count) == Writes(inserted_count)

\* _merge_keyword_tags: an INSERT OR IGNORE per token, then commit; nothing
\* when there is no token.
merge_statements(inserted_count) ==
    IF inserted_count = 0 THEN <<>> ELSE Writes(inserted_count) \o <<"commit">>

\* The statements of one iteration on the thread's connection, in order: the
\* UPDATE of the metadata columns and its commit, the UPDATE of
\* thumbnail_path and its commit when a thumbnail was generated, then the
\* merge of the keyword tags.
row_statements(r, inserted_count) ==
    IF r.kind # "updated" THEN <<>>
    ELSE <<"write", "commit">>
         \o (IF r.thumbnail_generated THEN <<"write", "commit">> ELSE <<>>)
         \o merge_statements(inserted_count)

\* The writes not yet committed after the statements, n being uncommitted
\* before them.
RECURSIVE uncommitted_after(_, _)
uncommitted_after(n, statements) ==
    IF statements = <<>> THEN n
    ELSE uncommitted_after(IF Head(statements) = "commit" THEN 0 ELSE n + 1,
                           Tail(statements))

\* fetch_all(... ORDER BY id) and _update_job_totals(len(rows))
RowsFetch(t) ==
    /\ regenThreads[t].pc = "fetch"
    /\ rows' = media
    /\ regenJob' = update_job_totals(regenJob, Len(media))
    /\ regenThreads' = [regenThreads EXCEPT
                          ![t].total = Len(media), ![t].idx = 0,
                          ![t].pc = IF Len(media) = 0 THEN "finish" ELSE "check"]
    /\ response' = NoResponse
    /\ UNCHANGED <<cancel_requested, importJob, lists, importThreads, handler, snapVars,
                   media, stored, scope, tags, media_tags, merged, lastRow, importRoot,
                   connection, videoThumb, remote, histVars>>

\* The body of one iteration on the fetched row of index idx + 1, whose id is
\* its position in the table.
RegenRowWith(t, env) ==
    /\ regenThreads[t].pc = "work"
    /\ LET th == regenThreads[t]
           id == th.idx + 1
           r == regenerate_row(th.missing_only, rows[id], env)
           updated == r.kind = "updated"
           db == IF updated
                 THEN merge_keyword_tags(tags, media_tags, id, r.values.keywords)
                 ELSE [tags |-> tags, media_tags |-> media_tags, inserted_count |-> 0]
       IN /\ media' = IF updated THEN update_media(media, id, r.values) ELSE media
          /\ tags' = db.tags
          /\ media_tags' = db.media_tags
          /\ merged' = IF updated THEN merged \cup Merged(id, r.values.keywords) ELSE merged
          /\ lastRow' = [id |-> id, missing_only |-> th.missing_only, kind |-> r.kind,
                         existing |-> media[id], metadata |-> r.metadata]
          /\ connection' = [handled |-> Append(connection.handled, id),
                            uncommitted |-> uncommitted_after(connection.uncommitted,
                                              row_statements(r, db.inserted_count))]
          /\ regenJob' = update_job_progress(regenJob, updated, r.thumbnail_generated,
                                             db.inserted_count)
          /\ lists' = IF r.kind = "missing" THEN Append1(lists, regenJob, "Missing file")
                      ELSE lists
          /\ regenThreads' = [regenThreads EXCEPT ![t].pc = AfterRecord(th),
                                                  ![t].idx = @ + 1]
    /\ touchedAfterSeen' = (touchedAfterSeen \/ regenThreads[t].seen)
    /\ response' = NoResponse
    /\ UNCHANGED <<cancel_requested, importJob, importThreads, handler, snapVars, stored,
                   scope, rows, importRoot, videoThumb, remote, cancelMidRun>>

RegenRow(t) == \E env \in RowEnvs : RegenRowWith(t, env)

\* Rows as imports and earlier runs leave them: complete, cleared by
\* clear_all_metadata_and_thumbnails, without thumbnail, without width,
\* without location.
FullRow ==
    [file_path |-> "stored", thumbnail_path |-> "t1", width |-> "w1", date_taken |-> "d1",
     gps_latitude |-> "g1", gps_longitude |-> "g1", location_state |-> "s1",
     location_country |-> "c1", keywords |-> "beach"]
ClearedRow ==
    [file_path |-> "stored", thumbnail_path |-> None, width |-> None, date_taken |-> None,
     gps_latitude |-> None, gps_longitude |-> None, location_state |-> None,
     location_country |-> None, keywords |-> None]
RowTemplates ==
    {FullRow, ClearedRow,
     [FullRow EXCEPT !.thumbnail_path = None],
     [FullRow EXCEPT !.width = None],
     [FullRow EXCEPT !.location_state = None, !.location_country = None]}

\* The media tables a detailed run starts from.
Tables ==
    {<<r>> : r \in RowTemplates}
    \cup {<<ClearedRow, FullRow>>, <<[FullRow EXCEPT !.width = None], ClearedRow>>}

OneRegenThread == [regen |-> {"t1"}, import |-> {}, status |-> FALSE, disk |-> FALSE]

\* One run of run_regeneration, in either mode, over a table of stored rows.
InitMerge ==
    /\ Quiet
    /\ importRoot = NoListing
    /\ videoThumb = NoVideoThumb
    /\ remote = NoTraversal
    /\ \E missing_only \in BOOLEAN :
         regenThreads = [t \in RegenThreadIds |->
                           IF t = "t1" THEN SpawnedRegen(missing_only) ELSE NoRegenThread]
    /\ media \in Tables
    /\ scope = OneRegenThread

NextMerge ==
    \/ RegenBegin("t1")
    \/ RegenStart("t1")
    \/ RowsFetch("t1")
    \/ RegenCheck("t1")
    \/ RegenRow("t1")
    \/ RegenCancelled("t1")
    \/ RegenUnset("t1")
    \/ RegenFinish("t1")
    \/ cancel_regeneration_job

SpecMerge == InitMerge /\ [][NextMerge]_vars

\* C6: while a missing-only run is under way, every field of every record
\* that was non-null when the run fetched the table, date_taken and
\* thumbnail_path included, still has the value it had.
C6_MissingOnlyKeepsValues ==
    (regenThreads["t1"].missing_only /\ regenThreads["t1"].pc \in {"check", "work", "finish"})
    => \A id \in 1..Len(rows) : \A f \in RegeneratedFields :
          rows[id][f] # None => media[id][f] = rows[id][f]

\* C7: after a full run has re-extracted a record, each metadata column of
\* the record holds the fresh value where that value is non-null, and the
\* value stored before where the fresh value is null.
C7_FullRunPrefersFresh ==
    (lastRow.kind = "updated" /\ ~lastRow.missing_only)
    => \A f \in UpdatedFields :
          media[lastRow.id][f] = IF lastRow.metadata[f] # None THEN lastRow.metadata[f]
                                 ELSE lastRow.existing[f]

\* A full run has replaced a stored width by the fresh one and kept the
\* stored keywords of the same record, the file holding none.
C7_Witness ==
    /\ lastRow.kind = "updated" /\ ~lastRow.missing_only
    /\ lastRow.existing.width = "w1" /\ lastRow.metadata.width = "w2"
    /\ media[lastRow.id].width = "w2"
    /\ lastRow.existing.keywords = "beach" /\ lastRow.metadata.keywords = None
    /\ media[lastRow.id].keywords = "beach"

C16_GeocodingOnlyFillsUnknown ==
    lastRow.kind = "updated"
    => \A f \in {"location_state", "location_country"} :
          lastRow.existing[f] # None => media[lastRow.id][f] = lastRow.existing[f]

-----------------------------------------------------------------------------
(* importer._collect_import_files *)

\* File names are sequences of characters.
Dot == "."
upper_char(c) ==
    CASE c = "j" -> "J" [] c = "p" -> "P" [] c = "g" -> "G" [] c = "n" -> "N"
      [] c = "t" -> "T" [] c = "x" -> "X" [] c = "a" -> "A" [] OTHER -> c
lower_char(c) ==
    CASE c = "J" -> "j" [] c = "P" -> "p" [] c = "G" -> "g" [] c = "N" -> "n"
      [] c = "T" -> "t" [] c = "X" -> "x" [] c = "A" -> "a" [] OTHER -> c

\* str.upper() and str.lower()
upper(name) == [i \in 1..Len(name) |-> upper_char(name[i])]
lower(name) == [i \in 1..Len(name) |-> lower_char(name[i])]

\* constants.SUPPORTED_EXTENSIONS, two of its members
SUPPORTED_EXTENSIONS == {<<Dot, "j", "p", "g">>, <<Dot, "p", "n", "g">>}

\* PurePath.suffix: from the last dot of the name, unless the name starts
\* with it or ends with it.
suffix(name) ==
    LET dots == {i \in 1..Len(name) : name[i] = Dot}
        last == CHOOSE i \in dots : \A j \in dots : j <= i
    IN IF dots = {} THEN <<>>
       ELSE IF last = 1 \/ last = Len(name) THEN <<>>
       ELSE SubSeq(name, last, Len(name))

\* fnmatch of a name against the pattern `*` followed by ext: on a platform
\* whose paths are case-insensitive both are case-folded first.
matches(name, ext, case_sensitive) ==
    LET n == IF case_sensitive THEN name ELSE lower(name)
        e == IF case_sensitive THEN ext ELSE lower(ext)
    IN Len(n) >= Len(e) /\ SubSeq(n, Len(n) - Len(e) + 1, Len(n)) = e

\* A list holding the members of a set, in some order.
RECURSIVE list_of(_)
list_of(S) ==
    IF S = {} THEN <<>>
    ELSE LET x == CHOOSE y \in S : TRUE IN <<x>> \o list_of(S \ {x})

\* root.glob(pattern): `*ext` looks at the root alone, `**/*ext` at the root
\* and every directory below it.
glob(tree, ext, recursive, case_sensitive) ==
    list_of({f \in tree : /\ recursive \/ f.depth = 0
                          /\ matches(f.name, ext, case_sensitive)})

\* The four passes for one extension.
glob_passes(tree, ext, case_sensitive) ==
    glob(tree, ext, FALSE, case_sensitive) \o glob(tree, upper(ext), FALSE, case_sensitive)
    \o glob(tree, ext, TRUE, case_sensitive) \o glob(tree, upper(ext), TRUE, case_sensitive)

RECURSIVE extend_all(_, _, _)
extend_all(tree, exts, case_sensitive) ==
    IF exts = <<>> THEN <<>>
    ELSE glob_passes(tree, Head(exts), case_sensitive)
         \o extend_all(tree, Tail(exts), case_sensitive)

\* list(set(files_to_import))
list_set(files_to_import) ==
    list_of({files_to_import[i] : i \in 1..Len(files_to_import)})

\* _collect_import_files
collect_import_files(tree, case_sensitive) ==
    list_set(extend_all(tree, list_of(SUPPORTED_EXTENSIONS), case_sensitive))

\* The file names an import root can hold, and how deep below the root.
FileNames ==
    {<<"a", Dot, "j", "p", "g">>, <<"a", Dot, "J", "P", "G">>, <<"a", Dot, "J", "p", "g">>,
     <<Dot, "j", "p", "g">>, <<"a", Dot, "t", "x", "t">>, <<"a", Dot, "p", "n", "g">>,
     <<"a", Dot, "j", "p", "g", Dot, "t", "x", "t">>}
Depths == {0, 1, 2}
Files == [name : FileNames, depth : Depths]

\* Files an import root holds at most.
MaxTreeFiles == 2

\* On a case-insensitive platform a directory holds one file per folded name.
Trees(case_sensitive) ==
    {tree \in SUBSET Files :
        /\ Cardinality(tree) <= MaxTreeFiles
        /\ case_sensitive \/ \A f \in tree, g \in tree :
                               (f.depth = g.depth /\ lower(f.name) = lower(g.name)) => f = g}

CollectImportFiles ==
    /\ ~importRoot.done
    /\ importRoot' = [importRoot EXCEPT
                        !.collected = collect_import_files(importRoot.tree,
                                                           importRoot.case_sensitive),
                        !.done = TRUE]
    /\ UNCHANGED <<jobVars, threadVars, handler, response, snapVars, media, stored, scope,
                   rows, tags, media_tags, merged, lastRow, connection, videoThumb, remote,
                   histVars>>

InitCollect ==
    /\ Quiet
    /\ videoThumb = NoVideoThumb
    /\ remote = NoTraversal
    /\ regenThreads = [t \in RegenThreadIds |-> NoRegenThread]
    /\ media = <<>>
    /\ scope = NoScope
    /\ \E case_sensitive \in BOOLEAN : \E tree \in Trees(case_sensitive) :
         importRoot = [tree |-> tree, case_sensitive |-> case_sensitive,
                       collected |-> <<>>, done |-> FALSE]

NextCollect == CollectImportFiles

SpecCollect == InitCollect /\ [][NextCollect]_vars

\* How often a file is in the returned list.
TimesCollected(f) ==
    Cardinality({i \in 1..Len(importRoot.collected) : importRoot.collected[i] = f})

\* C14: once _collect_import_files has returned, every file of the root
\* whose suffix, lower-cased, is a supported extension is in the list exactly
\* once, and no other file is in it.
C14_CollectsSupportedOnce ==
    importRoot.done
    => \A f \in importRoot.tree :
          TimesCollected(f) = IF lower(suffix(f.name)) \in SUPPORTED_EXTENSIONS THEN 1 ELSE 0

-----------------------------------------------------------------------------
(* importer._collect_webdav_files *)

\* The directories a remote tree can have, as paths below the root.
RemoteDirs == {<<>>, <<"a">>, <<"b">>, <<"a", "c">>}

\* The name of the file a directory can hold.
RemoteFileName == "f.jpg"

\* The trees: the root and directories whose parent is in the tree too.
RemoteTrees ==
    {dirs \in SUBSET RemoteDirs :
        /\ <<>> \in dirs
        /\ \A d \in dirs : d # <<>> => SubSeq(d, 1, Len(d) - 1) \in dirs}

\* The directories directly below dir.
Children(dirs, dir) ==
    {c \in dirs : Len(c) = Len(dir) + 1 /\ SubSeq(c, 1, Len(dir)) = dir}

\* client.list(remote_path): the names of the entries; a directory's name
\* ends with a slash.
client_list(tree, dir) ==
    (IF tree.dots THEN <<[name |-> ".", slash |-> FALSE], [name |-> "..", slash |-> FALSE]>>
     ELSE <<>>)
    \o [i \in 1..Cardinality(Children(tree.dirs, dir)) |->
          [name |-> list_of(Children(tree.dirs, dir))[i][Len(dir) + 1], slash |-> TRUE]]
    \o (IF dir \in tree.with_file THEN <<[name |-> RemoteFileName, slash |-> FALSE]>>
        ELSE <<>>)

\* _list_webdav_files: OSError and ValueError of client.list give [].
list_webdav_files(tree, dir) ==
    IF dir \in tree.failing THEN <<>> ELSE client_list(tree, dir)

\* A loop that skips no entry.
skipped_never(entry) == FALSE

\* `if entry in (".", ".."): continue`
skipped(entry) == entry.name \in {".", ".."} /\ ~entry.slash

\* The for loop over the entries of `current`: posixpath.join(current,
\* entry) goes onto the stack, without its slash, when it ends with a slash,
\* and into files otherwise.
RECURSIVE for_entries(_, _, _)
for_entries(entries, current, locals) ==
    IF entries = <<>> THEN locals
    ELSE LET entry == Head(entries)
             full_path == Append(current, entry.name)
         IN for_entries(Tail(entries), current,
                IF skipped(entry) THEN locals
                ELSE IF entry.slash
                THEN [locals EXCEPT !.stack = Append(@, full_path)]
                ELSE [locals EXCEPT !.files = Append(@, full_path)])

RemoteFrame ==
    UNCHANGED <<jobVars, threadVars, handler, response, snapVars, media, stored, scope,
                rows, tags, media_tags, merged, lastRow, importRoot, connection, videoThumb,
                histVars>>

\* One turn of `while stack:`: pop, list, walk the entries.
WebdavListDirectory ==
    /\ ~remote.returned
    /\ remote.stack # <<>>
    /\ LET current == remote.stack[Len(remote.stack)]
           popped == [stack |-> SubSeq(remote.stack, 1, Len(remote.stack) - 1),
                      files |-> remote.files]
           locals == for_entries(list_webdav_files(remote, current), current, popped)
       IN remote' = [remote EXCEPT !.stack = locals.stack, !.files = locals.files,
                                   !.listed = Append(@, current)]
    /\ RemoteFrame

\* `return files`
WebdavReturn ==
    /\ ~remote.returned
    /\ remote.stack = <<>>
    /\ remote' = [remote EXCEPT !.returned = TRUE]
    /\ RemoteFrame

\* A call of _collect_webdav_files on the root of some tree: `stack =
\* [remote_path]`, `files = []`.
InitWebdav ==
    /\ Quiet
    /\ importRoot = NoListing
    /\ videoThumb = NoVideoThumb
    /\ regenThreads = [t \in RegenThreadIds |-> NoRegenThread]
    /\ media = <<>>
    /\ scope = NoScope
    /\ \E dirs \in RemoteTrees, dots \in BOOLEAN :
       \E with_file \in SUBSET dirs, failing \in SUBSET dirs :
         remote = [dirs |-> dirs, with_file |-> with_file, failing |-> failing,
                   dots |-> dots, stack |-> <<<<>>>>, files |-> <<>>, listed |-> <<>>,
                   returned |-> FALSE]

NextWebdav == WebdavListDirectory \/ WebdavReturn

SpecWebdav == InitWebdav /\ [][NextWebdav]_vars

\* The thread that runs the traversal is scheduled as long as it can step.
SpecWebdavFair == SpecWebdav /\ WF_vars(NextWebdav)

\* The directories the traversal can come to: those below no failing
\* directory.
Reachable(tree) ==
    {d \in tree.dirs : \A n \in 0..(Len(d) - 1) : SubSeq(d, 1, n) \notin tree.failing}

\* How often x is in the sequence.
Times(seq, x) == Cardinality({i \in 1..Len(seq) : seq[i] = x})

-----------------------------------------------------------------------------
(* thumbnails.generate_video_thumbnail *)

VideoThumbFrame ==
    UNCHANGED <<jobVars, threadVars, handler, response, snapVars, media, stored, scope,
                rows, tags, media_tags, merged, lastRow, importRoot, connection, remote,
                histVars>>

\* `if not _ensure_output_dir(output_path): return False`
EnsureOutputDir ==
    /\ videoThumb.pc = "call"
    /\ videoThumb' = IF videoThumb.env.dir_ok
                     THEN [videoThumb EXCEPT !.pc = "extract"]
                     ELSE [videoThumb EXCEPT !.pc = "returned", !.result = FALSE]
    /\ VideoThumbFrame

\* `if not _extract_video_frame(source_path, temp_frame, ...): return False`;
\* _extract_video_frame is `_run_command(cmd) and output_path.exists()`.
ExtractVideoFrame ==
    /\ videoThumb.pc = "extract"
    /\ LET temp == videoThumb.temp \/ videoThumb.env.ffmpeg.wrote
           ok == videoThumb.env.ffmpeg.ran /\ temp
       IN videoThumb' = IF ok
                        THEN [videoThumb EXCEPT !.pc = "montage", !.temp = temp]
                        ELSE [videoThumb EXCEPT !.pc = "returned", !.temp = temp,
                                                !.result = FALSE]
    /\ VideoThumbFrame

\* `success = _generate_montage_thumbnail(temp_frame, output_path, ...)`
GenerateMontageThumbnail ==
    /\ videoThumb.pc = "montage"
    /\ LET output == videoThumb.output \/ videoThumb.env.convert.wrote
       IN videoThumb' = [videoThumb EXCEPT !.pc = "unlink", !.output = output,
                                           !.result = videoThumb.env.convert.ran /\ output]
    /\ VideoThumbFrame

\* `try: temp_frame.unlink(missing_ok=True) except OSError: pass`, then
\* `return success`
UnlinkTempFrame ==
    /\ videoThumb.pc = "unlink"
    /\ videoThumb' = [videoThumb EXCEPT
                        !.pc = "returned",
                        !.temp = IF videoThumb.env.unlink_ok THEN FALSE ELSE @]
    /\ VideoThumbFrame

\* A call of generate_video_thumbnail, no <output>.temp.jpg lying about: the
\* thumbnail may exist already (a regeneration), and the environment is any.
InitVideoThumb ==
    /\ Quiet
    /\ importRoot = NoListing
    /\ regenThreads = [t \in RegenThreadIds |-> NoRegenThread]
    /\ media = <<>>
    /\ scope = NoScope
    /\ remote = NoTraversal
    /\ \E output \in BOOLEAN :
       \E env \in [dir_ok : BOOLEAN, ffmpeg : ToolRuns, convert : ToolRuns,
                   unlink_ok : BOOLEAN] :
         videoThumb = [pc |-> "call", result |-> FALSE, temp |-> FALSE, output |-> output,
                       env |-> env]

NextVideoThumb ==
    \/ EnsureOutputDir
    \/ ExtractVideoFrame
    \/ GenerateMontageThumbnail
    \/ UnlinkTempFrame

SpecVideoThumb == InitVideoThumb /\ [][NextVideoThumb]_vars

\* C25: once generate_video_thumbnail has returned, with either result, the
\* temporary frame file <output>.temp.jpg does not exist.
C25_NoTempFrameLeft == videoThumb.pc = "returned" => ~videoThumb.temp

-----------------------------------------------------------------------------
(* The jobs: claims *)

RegenInLoop == {t \in RegenThreadIds : regenThreads[t].pc \in {"check", "work"}}
ImportInLoop == {t \in ImportThreadIds : importThreads[t].pc = "file"}
Terminal == {"completed", "failed", "cancelled"}

\* C1: at any instant at most one thread of a job kind is in its processing
\* loop, whatever the order in which triggers and the startup thread run.
C1_OneWorkerPerKind ==
    Cardinality(RegenInLoop) <= 1 /\ Cardinality(ImportInLoop) <= 1

\* C2: a trigger handled while the job of its kind is Running answers 409,
\* starts no thread and leaves the job, its list and the flag as they were.
C2_RunningTriggerRejected ==
    [][/\ (response'.op \in {"local", "webdav"} /\ importJob.status = "running")
            => (response'.code = "409" /\ UNCHANGED <<jobVars, threadVars>>)
       /\ (response'.op = "regenerate" /\ regenJob.status = "running")
            => (response'.code = "409" /\ UNCHANGED <<jobVars, threadVars>>)
       /\ (handler = "ready" /\ regenJob.status = "running"
             /\ (response'.op = "reset" \/ handler' = "reset"))
            => (response' = [op |-> "reset", code |-> "409"] /\ handler' = "ready"
                /\ UNCHANGED <<jobVars, threadVars>>)]_vars

C2_Witness ==
    /\ response = [op |-> "local", code |-> "409"]
    /\ importJob.status = "running"
    /\ \E t \in ImportThreadIds : importThreads[t].pc = "file"

\* C3: once a cancel was accepted with fewer records processed than the run
\* has, the job that ends without an error ends Cancelled with processed <=
\* total, and the run touches no record after it has seen the flag.
C3_CancelEndsCancelled ==
    (/\ cancelMidRun
     /\ regenJob.status \in Terminal
     /\ lists[regenJob.errors] = <<>>
     /\ \A t \in RegenThreadIds : regenThreads[t].pc = "idle")
    => (/\ regenJob.status = "cancelled"
        /\ regenJob.processed_media <= regenJob.total_media
        /\ ~touchedAfterSeen)

\* C4: cancel_regeneration sets the flag and returns true exactly when the job
\* is Running; otherwise it returns false and the flag keeps its value; in
\* both cases the job and its list are left alone.
C4_CancelOnlyWhenRunning ==
    [][response'.op = "cancel"
        => /\ regenJob' = regenJob /\ lists' = lists
           /\ IF regenJob.status = "running"
              THEN response'.code = "cancelling" /\ cancel_requested' = TRUE
              ELSE response'.code = "idle" /\ cancel_requested' = cancel_requested]_vars

C4_Witness ==
    /\ response = [op |-> "cancel", code |-> "idle"]
    /\ regenJob.status = "cancelled"
    /\ cancel_requested = FALSE

\* C5: a status snapshot holds the values the live job had at the instant it
\* was taken, errors list included, and keeps them whatever happens to the
\* live job afterwards.
C5_SnapshotIsACopy ==
    snapshot.kind # "none" => Deep(snapshot.job, lists) = snapshotAt

C5_Witness ==
    /\ snapshot.kind = "regeneration"
    /\ snapshotAt.status = "running"
    /\ regenJob.status = "failed"
    /\ Len(snapshotAt.errors) < Len(lists[regenJob.errors])

-----------------------------------------------------------------------------
(* Ingestion: claims *)

\* C9: an iteration of an import loop on a supported file that exists and is
\* copied, but whose thumbnail cannot be rendered, adds exactly one row to
\* media, with a null thumbnail_path, and the loop goes on with the id.
C9_ThumbnailFailureKeepsRecord ==
    [][\A t \in ImportThreadIds :
         importThreads[t].pc = "file"
         => \A env \in Envs :
              (/\ env.present /\ env.exists /\ env.kind # "dotfile"
               /\ env.copy_ok /\ ~env.thumb_ok
               /\ ImportFileWith(t, env))
              => /\ Len(media') = Len(media) + 1
                 /\ media'[Len(media')].thumbnail_path = None
                 /\ importThreads'[t].pc \in {"file", "finish"}]_vars

\* C10: the iteration of a local import over one JPEG with EXIF GPS and the
\* keywords "beach,sunset", nothing failing, adds one row with non-null
\* coordinates and date, one thumbnail file and two rows of media_tags, and
\* leaves the loop to finalize the job as Completed.
C10_ImportOnePhoto ==
    [][\A t \in ImportThreadIds :
         (/\ importThreads[t].pc = "file" /\ importThreads[t].source = "local"
          /\ importThreads[t].total = 1 /\ scope.disk)
         => \A env \in Envs :
              (/\ env.kind = "photo" /\ env.present /\ env.exists
               /\ env.copy_ok /\ env.thumb_ok /\ env.unlink_ok
               /\ ImportFileWith(t, env))
              => /\ Len(media') = Len(media) + 1
                 /\ media'[Len(media')].gps_latitude # None
                 /\ media'[Len(media')].gps_longitude # None
                 /\ media'[Len(media')].date_taken # None
                 /\ stored'.thumbnails = stored.thumbnails + 1
                 /\ Len(media_tags') = Len(media_tags) + 2
                 /\ importThreads'[t].pc = "finish"]_vars

\* C11: an iteration of an import loop whose file is missing, cannot be
\* validated or cannot be copied counts the file as processed, appends one
\* message to the job's errors and goes on with the loop.
C11_ItemFailureGoesOn ==
    [][\A t \in ImportThreadIds :
         importThreads[t].pc = "file"
         => \A env \in Envs :
              (/\ ~env.present \/ ~env.exists \/ ~env.copy_ok
               /\ env.kind # "dotfile"
               /\ ImportFileWith(t, env))
              => /\ importThreads'[t].pc \in {"file", "finish"}
                 /\ importJob'.processed_files = importJob.processed_files + 1
                 /\ Len(lists'[importJob.errors]) = Len(lists[importJob.errors]) + 1]_vars

\* C12: a run whose bulk read of the records, or whose file or remote listing,
\* fails goes to its failure handler, and the failure handler makes the job
\* Failed with one more message and no further item counted.
C12_SetupFailureFails ==
    [][/\ \A t \in RegenThreadIds :
            RegenFetchWith(t, FALSE) => regenThreads'[t].pc = "fail"
       /\ \A t \in ImportThreadIds :
            ImportCollectWith(t, "OSError", 0) => importThreads'[t].pc = "fail"
       /\ \A t \in RegenThreadIds :
            (regenThreads[t].pc = "fail" /\ regenThreads'[t].pc = "idle")
            => /\ regenJob'.status = "failed"
               /\ regenJob'.processed_media = regenJob.processed_media
               /\ Len(lists'[regenJob.errors]) = Len(lists[regenJob.errors]) + 1
       /\ \A t \in ImportThreadIds :
            (importThreads[t].pc = "fail" /\ importThreads'[t].pc = "idle")
            => /\ importJob'.status = "failed"
               /\ importJob'.processed_files = importJob.processed_files
               /\ Len(lists'[importJob.errors]) = Len(lists[importJob.errors]) + 1]_vars

StatusMoves(before, after) ==
    \/ after = before
    \/ before = "none" /\ after = "running"
    \/ before = "running" /\ after \in Terminal
    \/ before \in Terminal /\ after = "running"

\* C13: the status of either job only goes from no job to Running, from
\* Running to Completed, Failed or Cancelled, and from one of these to Running
\* again; the import job is never Cancelled.
C13_StatusLifecycle ==
    [][/\ StatusMoves(regenJob.status, regenJob'.status)
       /\ StatusMoves(importJob.status, importJob'.status)
       /\ importJob'.status # "cancelled"]_vars

\* C17: _start_job and _start_import_job leave the job and its error list as
\* they are when the job is Running; otherwise the job becomes a new one:
\* Running, with a start timestamp, no completion timestamp, all counters
\* zero and an empty error list of its own.
C17_StartKeepsRunningJob ==
    [][/\ \A t \in RegenThreadIds :
            RegenStart(t)
            => IF regenJob.status = "running"
               THEN regenJob' = regenJob /\ lists' = lists
               ELSE /\ regenJob' = [RegenerationJob("running", "set", regenJob'.errors)
                                      EXCEPT !.completed_at = None]
                    /\ regenJob'.total_media = 0 /\ regenJob'.processed_media = 0
                    /\ regenJob'.updated_metadata = 0 /\ regenJob'.generated_thumbnails = 0
                    /\ regenJob'.updated_tags = 0
                    /\ regenJob'.errors \in Refs \ LiveRefs(regenJob, importJob, snapshot.job)
                    /\ lists'[regenJob'.errors] = <<>>
       /\ \A t \in ImportThreadIds :
            ImportStart(t)
            => IF importJob.status = "running"
               THEN importJob' = importJob /\ lists' = lists
               ELSE /\ importJob'.status = "running"
                    /\ importJob'.started_at = "set" /\ importJob'.completed_at = None
                    /\ importJob'.total_files = 0 /\ importJob'.processed_files = 0
                    /\ importJob'.successful_imports = 0 /\ importJob'.failed_imports = 0
                    /\ importJob'.errors \in Refs \ LiveRefs(regenJob, importJob, snapshot.job)
                    /\ lists'[importJob'.errors] = <<>>]_vars

\* A second regeneration thread has gone through _start_job while the first
\* was at work on the Running job, whose totals are as the first set them.
C17_Witness ==
    /\ regenThreads["t1"].pc = "work"
    /\ regenThreads["t2"].pc = "fetch"
    /\ regenJob.status = "running"
    /\ regenJob.total_media > 0
    /\ regenJob.started_at = "set" /\ regenJob.completed_at = None

\* C18: a regeneration thread that finds the flag set at the top of an
\* iteration goes on to finalize the job as Cancelled, clears the flag and
\* returns; once the run has returned with the job Cancelled the flag is
\* false, and the processed counter of a Cancelled job never changes.
C18_CancelledRunStops ==
    /\ []((regenJob.status = "cancelled"
           /\ \A t \in RegenThreadIds : regenThreads[t].pc # "unset")
          => ~cancel_requested)
    /\ [][/\ \A t \in RegenThreadIds :
              /\ (RegenCheck(t) /\ cancel_requested)
                 => (regenThreads'[t].pc = "cancelled" /\ regenJob' = regenJob)
              /\ RegenCancelled(t)
                 => (regenJob'.status = "cancelled" /\ regenThreads'[t].pc = "unset")
              /\ RegenUnset(t) => (~cancel_requested' /\ regenThreads'[t].pc = "idle")
          /\ (regenJob.status = "cancelled" /\ regenJob'.errors = regenJob.errors)
             => regenJob'.processed_media = regenJob.processed_media]_vars

\* Whether a job that exists has its completion timestamp exactly when its
\* status is terminal.
CompletedAtIffTerminal(job) ==
    job.status # "none" => ((job.completed_at # None) <=> (job.status \in Terminal))

\* C19: in every state a job has a completion timestamp exactly when its
\* status is Completed, Failed or Cancelled; finalizing a job as Failed
\* appends exactly one message to its error list and changes no other list,
\* and finalizing it as Cancelled changes no list.
C19_CompletionStampIffTerminal ==
    /\ [](CompletedAtIffTerminal(regenJob) /\ CompletedAtIffTerminal(importJob))
    /\ [][/\ \A t \in RegenThreadIds :
              /\ RegenFail(t)
                 => /\ regenJob'.status = "failed" /\ regenJob'.completed_at # None
                    /\ \E msg \in {"Regeneration failed"} :
                         lists' = [lists EXCEPT ![regenJob.errors] = Append(@, msg)]
              /\ RegenCancelled(t)
                 => /\ regenJob'.status = "cancelled" /\ regenJob'.completed_at # None
                    /\ lists' = lists
          /\ \A t \in ImportThreadIds :
              ImportFail(t)
              => /\ importJob'.status = "failed" /\ importJob'.completed_at # None
                 /\ \E msg \in {"Import failed"} :
                      lists' = [lists EXCEPT ![importJob.errors] = Append(@, msg)]]_vars

\* A regeneration job finalized as Cancelled: it has its completion
\* timestamp and no error entry.
C19_Witness ==
    /\ regenJob.status = "cancelled"
    /\ regenJob.completed_at = "set"
    /\ lists[regenJob.errors] = <<>>

\* C21: a regeneration run handles the fetched rows in ascending id order
\* and leaves no write uncommitted between two rows: at every moment between
\* two iterations the rows handled are the first ones of the id-ordered
\* list and the connection holds no uncommitted write; an iteration writes
\* the row it handles only, and no other step changes a row, a tag or a tag
\* association.
C21_CommittedPrefix ==
    /\ [](/\ connection.uncommitted = 0
          /\ Len(connection.handled) <= Len(rows)
          /\ \A i \in 1..Len(connection.handled) : connection.handled[i] = i)
    /\ [][/\ \A j \in 1..Len(media) :
              media'[j] # media[j]
              => (regenThreads["t1"].pc = "work" /\ j = regenThreads["t1"].idx + 1)
          /\ Len(tags) <= Len(tags') /\ SubSeq(tags', 1, Len(tags)) = tags
          /\ Len(media_tags) <= Len(media_tags')
          /\ SubSeq(media_tags', 1, Len(media_tags)) = media_tags]_vars

\* A run over two rows was cancelled after the first: the first row's
\* writes are in the table with its tags, the second row is as it was.
C21_Witness ==
    /\ regenJob.status = "cancelled"
    /\ Len(rows) = 2
    /\ connection.handled = <<1>>
    /\ media[1] # rows[1] /\ media[2] = rows[2]
    /\ media_tags # <<>>
    /\ connection.uncommitted = 0

\* The coordinate pair of the fresh metadata of an iteration.
Coordinates(metadata) == <<metadata.gps_latitude, metadata.gps_longitude>>

C23_CopyBeforeInsert ==
    /\ [](\A kind \in FileKinds, env \in StepEnvs :
            LET steps == process_steps(kind, env)
            IN \A i \in 1..Len(steps) :
                  /\ steps[i].on = "source" => steps[i].op \in {"exists", "read"}
                  /\ steps[i] = MediaInsert
                     => \E j \in 1..(i - 1) : steps[j] = OriginalWrite)
    /\ [][\A t \in ImportThreadIds :
             (importThreads[t].pc = "file" /\ importThreads'[t] # importThreads[t])
             => /\ stored'.originals >= stored.originals
                /\ (scope.disk /\ Len(media') > Len(media))
                   => stored'.originals = stored.originals + 1]_vars

\* An import copied a file into originals/ and no record was inserted for
\* it: a stored file without a record.
C23_Witness ==
    /\ scope.disk
    /\ stored.originals = 1
    /\ media = <<>>
    /\ importJob.status = "running"

\* C24: when an import iteration ingests a photo with coordinates, geocoding
\* being enabled and the lookup resolving a state and a country, the values
\* that the INSERT of the record binds carry that state and that country.
C24_InsertCarriesLocation ==
    [][\A t \in ImportThreadIds :
         importThreads[t].pc = "file"
         => \A env \in Envs :
              (/\ env.kind = "photo" /\ env.present /\ env.exists /\ env.copy_ok
               /\ env.geo_enabled /\ env.place # NoPlace
               /\ ImportFileWith(t, env))
              => LET metadata == generate_complete_metadata(ContentsOf(env.kind),
                                                            env.geo_enabled, env.place)
                     record == media_record(metadata, IF env.thumb_ok THEN "thumb" ELSE None)
                 IN /\ metadata.looked_up
                    /\ record.location_state = env.place.state
                    /\ record.location_country = env.place.country]_vars

\* C27: with every thread scheduled and every external call returning or
\* raising, an import job that is Running is Completed or Failed later on,
\* and a regeneration job that is Running is Completed, Failed or Cancelled
\* later on.
C27_RunningJobEnds ==
    /\ (importJob.status = "running") ~> (importJob.status \in Terminal)
    /\ (regenJob.status = "running") ~> (regenJob.status \in Terminal)

\* C28: in every state of an import job, processed_files is the sum of
\* successful_imports and failed_imports and is at most total_files, and a
\* Completed job has processed_files = total_files.
C28_ImportCounters ==
    importJob.status # "none"
    => /\ importJob.processed_files = importJob.successful_imports + importJob.failed_imports
       /\ importJob.processed_files <= importJob.total_files
       /\ importJob.status = "completed"
          => importJob.processed_files = importJob.total_files

\* C29: while the thread of trigger_reset is clearing metadata and
\* thumbnails, a regeneration or reset trigger starts no other run: it is
\* answered 409 and no thread is spawned.
C29_ResetExcludesRuns ==
    [][(\E t \in RegenThreadIds : regenThreads[t].pc = "clearing")
       /\ (trigger_regeneration \/ trigger_reset_import)
       => response'.code = "409" /\ regenThreads' = regenThreads]_vars

\* C30: an iteration of an import loop unlinks its file only when
\* process_media_file has returned the id of a record added to the table; an
\* iteration counted in failed_imports unlinks nothing; and an iteration
\* counted in successful_imports has added its record.
C30_DeleteOnlyAfterRecord ==
    [][\A t \in ImportThreadIds :
         importThreads[t].pc = "file" /\ importThreads'[t] # importThreads[t]
         => /\ stored'.deleted >= stored.deleted
            /\ stored'.deleted > stored.deleted => Len(media') = Len(media) + 1
            /\ importJob'.failed_imports > importJob.failed_imports
               => stored'.deleted = stored.deleted
            /\ importJob'.successful_imports > importJob.successful_imports
               => Len(media') = Len(media) + 1]_vars

\* An import has counted a file that process_media_file rejected as failed
\* and has left it in place.
C30_Witness ==
    /\ scope.disk
    /\ importJob.status # "none"
    /\ importJob.failed_imports >= 1
    /\ \E i \in 1..Len(lists[importJob.errors]) :
          lists[importJob.errors][i] = "Failed to process"
    /\ stored.deleted = 0

====
